---- MODULE Spec2Model ----
(***************************************************************************)
(* A model of the intrusive AVL tree of src/avl.c (public contract in      *)
(* src/unnamed/part_000, the header avl.h).                                *)
(*                                                                         *)
(* The heap is the set of caller-owned `struct avl` records; a record is   *)
(* named by a positive integer and NULL is 0.  `struct avl **` arguments   *)
(* are modelled as slots: either the caller's root pointer or the field    *)
(* next[d] of a record.  The setjmp/longjmp unwinding of the C code is     *)
(* modelled by the `jmp` flag of the value every recursive call returns:   *)
(* once it is set, no enclosing frame runs the code after its call.        *)
(***************************************************************************)
EXTENDS Integers, Sequences, FiniteSets, TLC

\* ------------------------------------------------------------------ bounds
\* Number of distinct keys the caller uses.
NumKeys == 7
\* Number of additional records whose key duplicates another record's key.
NumDup == 1
\* The latest invocation on which a visitor asks avl_foreach to stop.
MaxStop == 3

\* ------------------------------------------------------------- node model
NULL == 0

Nodes == 1..(NumKeys + NumDup)

\* The key stored in the caller's record that embeds node n.
Key(n) == ((n - 1) % NumKeys) + 1

\* The caller's comparator: a consistent total order on the keys.
cmpfn(n1, n2) == Key(n1) - Key(n2)

\* Conversion of an int expression to `signed char` (the type of balance).
SChar(x) == ((x + 128) % 256) - 128

\* A zeroed `struct avl`.
ZeroNext == [d \in 0..1 |-> NULL]

EmptyHeap ==
    [root    |-> NULL,
     next    |-> [n \in Nodes |-> ZeroNext],
     balance |-> [n \in Nodes |-> 0],
     fault   |-> FALSE,
     log     |-> <<>>]

\* `struct avl **`: the root pointer (n = NULL) or the field n->next[d].
RootSlot == [n |-> NULL, d |-> 0]

NextSlot(n, d) == [n |-> n, d |-> d]

Deref(h, s) == IF s.n = NULL THEN h.root ELSE h.next[s.n][s.d]

Store(h, s, v) ==
    IF s.n = NULL THEN [h EXCEPT !.root = v]
                  ELSE [h EXCEPT !.next[s.n][s.d] = v]

\* ------------------------------------------------------- rotation/balance
avl_max(x, y) == IF x > y THEN x ELSE y

\* The records reachable from n through child links.
RECURSIVE NodesOf(_, _)
NodesOf(h, n) ==
    IF n = NULL THEN {}
    ELSE {n} \cup NodesOf(h, h.next[n][0]) \cup NodesOf(h, h.next[n][1])

TreeNodes(h) == NodesOf(h, h.root)

KeysOf(h) == {Key(n) : n \in TreeNodes(h)}

\* Height in node levels: 0 for the empty tree, 1 for a single node.
RECURSIVE Height(_, _)
Height(h, n) ==
    IF n = NULL THEN 0
    ELSE 1 + avl_max(Height(h, h.next[n][0]), Height(h, h.next[n][1]))

\* The steps of a call are recorded in h.log, which the code does not have:
\*   "bal"    balance of node n was written, v is the value stored
\*   "restr"  avl_restructure found balance v outside -1..1 at the root of
\*            slot s; n is its child on the heavy side and w the balance
\*            read from that child (0 when n is NULL)
\*   "rot"    avl_rotate on slot s in direction v: root n, child w that is
\*            to be promoted
\*   "commit" avl_insert_commit / avl_delete_commit on slot s after its
\*            avl_restructure: n is the root of the slot, v its balance and
\*            w the height of its subtree at that moment
Ev(t, s, n, v, w) == [t |-> t, s |-> s, n |-> n, v |-> v, w |-> w]

Log(h, e) == [h EXCEPT !.log = Append(@, e)]

avl_log_bal(h, n) == Log(h, Ev("bal", RootSlot, n, h.balance[n], 0))

avl_log_restr(h, s, R, inext) ==
    Log(h, Ev("restr", s, h.next[R][inext], h.balance[R],
              IF h.next[R][inext] = NULL THEN 0
                                         ELSE h.balance[h.next[R][inext]]))

avl_log_rot(h, s, dir, A, B) == Log(h, Ev("rot", s, A, dir, B))

avl_log_commit(h, s) ==
    Log(h, Ev("commit", s, Deref(h, s), h.balance[Deref(h, s)],
              Height(h, Deref(h, s))))

\* (*root)->balance += delta, for the node in slot s.
avl_bal_add(h, s, delta) ==
    avl_log_bal([h EXCEPT !.balance[Deref(h, s)] = SChar(@ + delta)],
                Deref(h, s))

\* The links of a rotation that re-parents B's outer subtree instead of its
\* inner one.
avl_rotate_links_outer(h, s, dir, A, B) ==
    [Store(h, s, B) EXCEPT !.next[A][1 - dir] = h.next[B][1 - dir],
                           !.next[B][dir] = A]

\* Lines 30-34 of avl_rotate: *root = B, A->next[!dir] = y, B->next[dir] = A.
avl_rotate_links(h, s, dir, A, B) ==
    [Store(h, s, B) EXCEPT !.next[A][1 - dir] = h.next[B][dir],
                           !.next[B][dir] = A]

\* Lines 35-36 of avl_rotate: A's balance from B's balance before the
\* rotation.
\* A balance update of A that leaves out the avl_max term of line 35.
avl_rotate_balA_nomax(h, dir, A, B) ==
    avl_log_bal([h EXCEPT !.balance[A] = SChar(@ + (IF dir = 1 THEN 1 ELSE -1))],
                A)

avl_rotate_balA(h, dir, A, B) ==
    avl_log_bal(
        [h EXCEPT !.balance[A] =
            SChar(@ + (IF dir = 1
                         THEN SChar(avl_max(-h.balance[B], 0) + 1)
                         ELSE -SChar(avl_max(h.balance[B], 0) + 1)))],
        A)

\* Lines 37-38 of avl_rotate: B's balance from A's new balance.
avl_rotate_balB(h, dir, A, B) ==
    avl_log_bal(
        [h EXCEPT !.balance[B] =
            SChar(@ + (IF dir = 1
                         THEN SChar(avl_max(h.balance[A], 0) + 1)
                         ELSE -SChar(avl_max(-h.balance[A], 0) + 1)))],
        B)

\* Rotate the subtree in slot s in direction dir (0 left, 1 right).  A NULL
\* root or a NULL child opposite to dir is a NULL dereference in the C code;
\* it is recorded in h.fault.
avl_rotate(h, s, dir) ==
    IF Deref(h, s) = NULL THEN [h EXCEPT !.fault = TRUE]
    ELSE IF h.next[Deref(h, s)][1 - dir] = NULL
           THEN [avl_log_rot(h, s, dir, Deref(h, s), NULL)
                   EXCEPT !.fault = TRUE]
    ELSE avl_rotate_balB(
           avl_rotate_balA(
             avl_rotate_links(
               avl_log_rot(h, s, dir, Deref(h, s),
                           h.next[Deref(h, s)][1 - dir]),
               s, dir, Deref(h, s), h.next[Deref(h, s)][1 - dir]),
             dir, Deref(h, s), h.next[Deref(h, s)][1 - dir]),
           dir, Deref(h, s), h.next[Deref(h, s)][1 - dir])

\* A double-rotation test that never asks for the inner rotation.
avl_double_rot_never(rbal, cbal) == FALSE

avl_double_rot(rbal, cbal) ==
    IF rbal > 0 THEN cbal < 0 ELSE cbal > 0

\* The light side taken for the heavy one.
avl_inext_flip(bal) == IF bal < 0 THEN 1 ELSE 0

\* The heavy side of a root whose balance is bal.
avl_inext(bal) == IF bal < 0 THEN 0 ELSE 1

\* Lines 70-75 of avl_restructure, for the root R of slot s.  A NULL child
\* on the heavy side is a NULL dereference, recorded in h.fault.
avl_restructure_rot(h, s, R, inext) ==
    IF h.next[R][inext] = NULL THEN [h EXCEPT !.fault = TRUE]
    ELSE avl_rotate(
           IF avl_double_rot(h.balance[R], h.balance[h.next[R][inext]])
             THEN avl_rotate(h, NextSlot(R, inext), inext)
             ELSE h,
           s, 1 - inext)

\* A restructure that never rotates.
avl_restructure_skip(h, s) == h

avl_restructure(h, s) ==
    IF h.balance[Deref(h, s)] < -1 \/ h.balance[Deref(h, s)] > 1
      THEN avl_restructure_rot(
             avl_log_restr(h, s, Deref(h, s),
                           avl_inext(h.balance[Deref(h, s)])),
             s, Deref(h, s), avl_inext(h.balance[Deref(h, s)]))
      ELSE h

\* ---------------------------------------------------------------- insert
\* The value a frame of the insertion returns: the heap, whether a longjmp
\* to avl_insert's setjmp is in flight, ctx->ret, and the join calls made.
InsRes(h, jmp, ret, joins) ==
    [h |-> h, jmp |-> jmp, ret |-> ret, joins |-> joins]

\* Variants of the exit test of avl_insert_commit: the test of
\* avl_delete_commit, and no exit at all.
avl_insert_commit_jmp_nonzero(r, s) ==
    IF r.h.balance[Deref(r.h, s)] # 0 THEN [r EXCEPT !.jmp = TRUE] ELSE r

avl_insert_commit_jmp_never(r, s) == r

\* Lines 96-98: longjmp when the node in slot s has balance 0.
avl_insert_commit_jmp(r, s) ==
    IF r.h.balance[Deref(r.h, s)] = 0 THEN [r EXCEPT !.jmp = TRUE] ELSE r

avl_insert_commit(r, s) ==
    avl_insert_commit_jmp(
        [r EXCEPT !.h = avl_log_commit(avl_restructure(r.h, s), s)], s)

\* An unwinding step that runs although a longjmp is in flight.
avl_insert_adjust_nojmp(r, s, cmp) ==
    avl_insert_commit(
        [r EXCEPT !.h = avl_bal_add(r.h, s, IF cmp < 0 THEN -1 ELSE 1)], s)

\* What a frame of avl_insert_thunk does after its recursive call returned
\* r: nothing when the call left by longjmp, else adjust and commit.
avl_insert_adjust(r, s, cmp) ==
    IF r.jmp THEN r
    ELSE avl_insert_commit(
           [r EXCEPT !.h = avl_bal_add(r.h, s, IF cmp < 0 THEN -1 ELSE 1)], s)

\* The caller's join callback.  The modelled callback discards the incoming
\* node and leaves the slot alone; the call and its arguments are recorded.
joinfn(r, s, node) ==
    [r EXCEPT !.joins = Append(@, [slot |-> s, join |-> node])]

\* An equal-node branch that leaves ctx->ret at its initial 0.
avl_insert_found_noret(h, s, node, join) ==
    IF join THEN joinfn(InsRes(h, TRUE, 0, <<>>), s, node)
            ELSE InsRes(h, TRUE, 0, <<>>)

\* An equal-node branch that never calls the join callback.
avl_insert_found_nojoin(h, s, node, join) == InsRes(h, TRUE, 1, <<>>)

\* The branch of avl_insert_thunk taken when node compares equal to *root.
avl_insert_found(h, s, node, join) ==
    IF join THEN joinfn(InsRes(h, TRUE, 1, <<>>), s, node)
            ELSE InsRes(h, TRUE, 1, <<>>)

RECURSIVE avl_insert_thunk(_, _, _, _)
avl_insert_thunk(h, s, node, join) ==
    IF Deref(h, s) = NULL
      THEN InsRes(Store(h, s, node), FALSE, 0, <<>>)
    ELSE IF cmpfn(node, Deref(h, s)) = 0
      THEN avl_insert_found(h, s, node, join)
    ELSE
      avl_insert_adjust(
          avl_insert_thunk(
              h,
              NextSlot(Deref(h, s),
                       IF cmpfn(node, Deref(h, s)) < 0 THEN 0 ELSE 1),
              node, join),
          s, cmpfn(node, Deref(h, s)))

avl_insert(h, node, join) == avl_insert_thunk(h, RootSlot, node, join)

\* ---------------------------------------------------------------- delete
\* The value a frame of the deletion returns: the heap, whether a longjmp to
\* the context's setjmp is in flight, ctx->res, and the delfn calls made.
DelRes(h, jmp, res, dels) ==
    [h |-> h, jmp |-> jmp, res |-> res, dels |-> dels]

\* Variant of the exit test of avl_delete_commit: the test of
\* avl_insert_commit.
avl_delete_commit_jmp_zero(r, s) ==
    IF r.h.balance[Deref(r.h, s)] = 0 THEN [r EXCEPT !.jmp = TRUE] ELSE r

\* Lines 171-173: longjmp when the node in slot s has a nonzero balance.
avl_delete_commit_jmp(r, s) ==
    IF r.h.balance[Deref(r.h, s)] # 0 THEN [r EXCEPT !.jmp = TRUE] ELSE r

avl_delete_commit(r, s) ==
    avl_delete_commit_jmp(
        [r EXCEPT !.h = avl_log_commit(avl_restructure(r.h, s), s)], s)

\* What a frame of avl_unlink_min does after its recursive call returned r.
avl_unlink_adjust(r, s) ==
    IF r.jmp THEN r
    ELSE avl_delete_commit([r EXCEPT !.h = avl_bal_add(r.h, s, 1)], s)

\* Unlink the minimum of the non-empty subtree in slot s; its context is the
\* ctx2 of avl_delete_replace.
RECURSIVE avl_unlink_min(_, _)
avl_unlink_min(h, s) ==
    IF h.next[Deref(h, s)][0] # NULL
      THEN avl_unlink_adjust(avl_unlink_min(h, NextSlot(Deref(h, s), 0)), s)
      ELSE DelRes(Store(h, s, h.next[Deref(h, s)][1]), FALSE, Deref(h, s),
                  <<>>)

\* *dst = *src for two `struct avl`.
avl_struct_copy(h, dst, src) ==
    avl_log_bal(
        [h EXCEPT !.next[dst] = h.next[src], !.balance[dst] = h.balance[src]],
        dst)

\* A splice whose successor takes over the links but keeps its own balance.
avl_delete_splice_ownbal(r, s, u) ==
    IF ~u.jmp THEN
      avl_delete_commit(
        [r EXCEPT !.h = avl_bal_add(
            Store([u.h EXCEPT !.next[u.res] = u.h.next[Deref(u.h, s)]],
                  s, u.res),
            s, -1)],
        s)
    ELSE
      [r EXCEPT !.h = Store([u.h EXCEPT !.next[u.res] = u.h.next[Deref(u.h, s)]],
                            s, u.res),
                !.jmp = TRUE]

\* A splice that reports the successor instead of the matched node.
avl_delete_splice_succ(r, s, u) ==
    IF ~u.jmp THEN
      avl_delete_commit(
        [r EXCEPT !.h = avl_bal_add(
            Store(avl_struct_copy(u.h, u.res, Deref(u.h, s)), s, u.res),
            s, -1),
                  !.res = u.res],
        s)
    ELSE
      [r EXCEPT !.h = Store(avl_struct_copy(u.h, u.res, Deref(u.h, s)),
                            s, u.res),
                !.jmp = TRUE,
                !.res = u.res]

\* Lines 210-223 of avl_delete_replace once avl_unlink_min has ended with
\* outcome u in the inner context ctx2: the successor u.res takes over the
\* removed node's struct and its slot; when the unlink returned normally the
\* slot is adjusted and committed in the outer context r, else the outer
\* longjmp is taken.
avl_delete_splice(r, s, u) ==
    IF ~u.jmp THEN
      avl_delete_commit(
        [r EXCEPT !.h = avl_bal_add(
            Store(avl_struct_copy(u.h, u.res, Deref(u.h, s)), s, u.res),
            s, -1)],
        s)
    ELSE
      [r EXCEPT !.h = Store(avl_struct_copy(u.h, u.res, Deref(u.h, s)),
                            s, u.res),
                !.jmp = TRUE]

\* A replacement that always promotes next[1] of a node with a NULL child.
avl_delete_replace_right(r, s) ==
    IF r.h.next[Deref(r.h, s)][0] = NULL \/ r.h.next[Deref(r.h, s)][1] = NULL
      THEN [r EXCEPT !.h = Store(r.h, s, r.h.next[Deref(r.h, s)][1])]
      ELSE avl_delete_splice(
             r, s, avl_unlink_min(r.h, NextSlot(Deref(r.h, s), 1)))

\* Remove the node in slot s.  r is the state of the outer context (its res
\* is already that node).
avl_delete_replace(r, s) ==
    IF r.h.next[Deref(r.h, s)][0] = NULL \/ r.h.next[Deref(r.h, s)][1] = NULL
      THEN [r EXCEPT !.h = Store(r.h, s,
                                 IF r.h.next[Deref(r.h, s)][0] # NULL
                                   THEN r.h.next[Deref(r.h, s)][0]
                                   ELSE r.h.next[Deref(r.h, s)][1])]
      ELSE avl_delete_splice(
             r, s, avl_unlink_min(r.h, NextSlot(Deref(r.h, s), 1)))

\* An unwinding step that runs although a longjmp is in flight.
avl_delete_adjust_nojmp(r, s, cmp) ==
    avl_delete_commit(
        [r EXCEPT !.h = avl_bal_add(r.h, s, IF cmp < 0 THEN 1 ELSE -1)], s)

\* What a frame of avl_delete_thunk does after its recursive call returned
\* r: nothing when the call left by longjmp, else adjust and commit.
avl_delete_adjust(r, s, cmp) ==
    IF r.jmp THEN r
    ELSE avl_delete_commit(
           [r EXCEPT !.h = avl_bal_add(r.h, s, IF cmp < 0 THEN 1 ELSE -1)], s)

\* The caller's delete-predicate: "keep" returns 0, "remove" returns 1.  The
\* call and its argument are recorded.
delfn(r, node) == [r EXCEPT !.dels = Append(@, node)]

\* The delfn argument of avl_delete: NULL or one of the two predicates.
DelFns == {"NULL", "keep", "remove"}

\* An equal-node branch that calls the predicate but ignores its verdict.
avl_delete_found_force(h, s, del) ==
    avl_delete_replace(
        IF del = "NULL"
          THEN DelRes(h, FALSE, Deref(h, s), <<>>)
          ELSE delfn(DelRes(h, FALSE, Deref(h, s), <<>>), Deref(h, s)),
        s)

\* The branch of avl_delete_thunk taken when test compares equal to *root.
avl_delete_found(h, s, del) ==
    IF del = "keep"
      THEN [delfn(DelRes(h, FALSE, Deref(h, s), <<>>), Deref(h, s))
              EXCEPT !.jmp = TRUE]
      ELSE avl_delete_replace(
             IF del = "NULL"
               THEN DelRes(h, FALSE, Deref(h, s), <<>>)
               ELSE delfn(DelRes(h, FALSE, Deref(h, s), <<>>), Deref(h, s)),
             s)

RECURSIVE avl_delete_thunk(_, _, _, _)
avl_delete_thunk(h, s, test, del) ==
    IF Deref(h, s) = NULL
      THEN DelRes(h, TRUE, NULL, <<>>)
    ELSE IF cmpfn(test, Deref(h, s)) = 0
      THEN avl_delete_found(h, s, del)
    ELSE
      avl_delete_adjust(
          avl_delete_thunk(
              h,
              NextSlot(Deref(h, s),
                       IF cmpfn(test, Deref(h, s)) < 0 THEN 0 ELSE 1),
              test, del),
          s, cmpfn(test, Deref(h, s)))

avl_delete(h, node, del) == avl_delete_thunk(h, RootSlot, node, del)

\* ---------------------------------------------------------------- lookup
\* A descent step that takes the wrong child.
avl_lookup_next_flip(h, rt, cmp) == h.next[rt][IF cmp < 0 THEN 1 ELSE 0]

\* Line 288: root = root->next[cmp < 0 ? 0 : 1].
avl_lookup_next(h, rt, cmp) == h.next[rt][IF cmp < 0 THEN 0 ELSE 1]

\* The loop of avl_lookup, one iteration per unfolding; rt is the local copy
\* of the root pointer.
RECURSIVE avl_lookup(_, _, _)
avl_lookup(h, rt, query) ==
    IF rt = NULL THEN NULL
    ELSE IF cmpfn(query, rt) = 0 THEN rt
    ELSE avl_lookup(h, avl_lookup_next(h, rt, cmpfn(query, rt)), query)

\* --------------------------------------------------------------- foreach
\* The caller's visitor and its data: it counts its invocations and returns
\* stopVal on invocation number stopAt, 0 on every other one; stopAt = 0 is
\* a visitor that always returns 0.
StopVals == {-1, 7}

Visitors ==
    {[stopAt |-> 0, stopVal |-> 0]} \cup
    {[stopAt |-> k, stopVal |-> sv] : k \in 1..MaxStop, sv \in StopVals}

IterDirs == {"AVL_PREORDER", "AVL_INORDER", "AVL_POSTORDER"}

\* The state of an iteration: the events so far (a visitor invocation on n,
\* or a read of a field of n by the traversal), whether a longjmp to
\* avl_foreach's setjmp is in flight, ctx->ret, and the visitor's counter.
IterRes(ev, jmp, ret, cnt) ==
    [ev |-> ev, jmp |-> jmp, ret |-> ret, cnt |-> cnt]

\* fn(node, data): the visitor is invoked on node.
iterfn(r, node) ==
    [r EXCEPT !.cnt = @ + 1, !.ev = Append(@, [t |-> "visit", n |-> node])]

\* The value the invocation that iterfn recorded last returns.
iterfn_res(r, v) == IF r.cnt = v.stopAt THEN v.stopVal ELSE 0

\* The traversal evaluates node->next[d] to descend.
avl_foreach_read(r, node) ==
    IF r.jmp THEN r
    ELSE [r EXCEPT !.ev = Append(@, [t |-> "read", n |-> node])]

\* A stop check that records the result but does not leave the traversal.
avl_foreach_stop_nojmp(r, v) ==
    IF iterfn_res(r, v) # 0 THEN [r EXCEPT !.ret = iterfn_res(r, v)] ELSE r

\* Lines 319-322 of avl_foreach_invoke: a nonzero res is stored in ctx->ret
\* and the traversal is left by longjmp.
avl_foreach_stop(r, v) ==
    IF iterfn_res(r, v) # 0
      THEN [r EXCEPT !.ret = iterfn_res(r, v), !.jmp = TRUE]
      ELSE r

\* Nothing runs in a frame once a longjmp is in flight.
avl_foreach_invoke(r, node, v) ==
    IF r.jmp THEN r ELSE avl_foreach_stop(iterfn(r, node), v)

RECURSIVE avl_foreach_preorder(_, _, _, _)
avl_foreach_preorder(r, h, node, v) ==
    IF r.jmp \/ node = NULL THEN r
    ELSE avl_foreach_preorder(
           avl_foreach_read(
             avl_foreach_preorder(
               avl_foreach_read(avl_foreach_invoke(r, node, v), node),
               h, h.next[node][0], v),
             node),
           h, h.next[node][1], v)

RECURSIVE avl_foreach_inorder(_, _, _, _)

\* An in-order walk that invokes the visitor before the left subtree.
avl_foreach_inorder_first(r, h, node, v) ==
    IF r.jmp \/ node = NULL THEN r
    ELSE avl_foreach_inorder(
           avl_foreach_read(
             avl_foreach_inorder(
               avl_foreach_read(avl_foreach_invoke(r, node, v), node),
               h, h.next[node][0], v),
             node),
           h, h.next[node][1], v)

avl_foreach_inorder(r, h, node, v) ==
    IF r.jmp \/ node = NULL THEN r
    ELSE avl_foreach_inorder(
           avl_foreach_read(
             avl_foreach_invoke(
               avl_foreach_inorder(avl_foreach_read(r, node),
                                   h, h.next[node][0], v),
               node, v),
             node),
           h, h.next[node][1], v)

RECURSIVE avl_foreach_postorder(_, _, _, _)

\* A post-order walk that invokes the visitor before the right subtree.
avl_foreach_postorder_mid(r, h, node, v) ==
    IF r.jmp \/ node = NULL THEN r
    ELSE avl_foreach_postorder(
           avl_foreach_read(
             avl_foreach_invoke(
               avl_foreach_postorder(avl_foreach_read(r, node),
                                     h, h.next[node][0], v),
               node, v),
             node),
           h, h.next[node][1], v)

avl_foreach_postorder(r, h, node, v) ==
    IF r.jmp \/ node = NULL THEN r
    ELSE avl_foreach_invoke(
           avl_foreach_postorder(
             avl_foreach_read(
               avl_foreach_postorder(avl_foreach_read(r, node),
                                     h, h.next[node][0], v),
               node),
             h, h.next[node][1], v),
           node, v)

avl_foreach(h, rt, dir, v) ==
    IF dir = "AVL_PREORDER"
      THEN avl_foreach_preorder(IterRes(<<>>, FALSE, 0, 0), h, rt, v)
    ELSE IF dir = "AVL_INORDER"
      THEN avl_foreach_inorder(IterRes(<<>>, FALSE, 0, 0), h, rt, v)
    ELSE IF dir = "AVL_POSTORDER"
      THEN avl_foreach_postorder(IterRes(<<>>, FALSE, 0, 0), h, rt, v)
    ELSE IterRes(<<>>, FALSE, 0, 0)

\* ----------------------------------------------------------- the program
VARIABLES
    root,       \* the caller's root pointer
    next,       \* next[n][d]: the child pointers of record n
    balance,    \* balance[n]: the balance field of record n
    fault,      \* a NULL pointer was dereferenced
    last,       \* the call whose result the caller holds: arguments,
                \* result, call-back log, heap before and after
    ascending   \* the tree was built from the empty tree by avl_insert
                \* calls alone, each of a key above every key in the tree

vars == <<root, next, balance, fault, last, ascending>>

\* The heap a call starts on; its step log is empty.
Heap ==
    [root |-> root, next |-> next, balance |-> balance, fault |-> fault,
     log |-> <<>>]

\* The round trip a delete completes: the node the previous call inserted
\* and the key set before that insert.
NoRT == [node |-> NULL, keys |-> {}]

NoCall ==
    [op |-> "none", node |-> NULL, join |-> FALSE, del |-> "NULL",
     ret |-> 0, pre |-> EmptyHeap, post |-> EmptyHeap,
     joins |-> <<>>, dels |-> <<>>, rt |-> NoRT,
     dir |-> "AVL_PREORDER", visitor |-> [stopAt |-> 0, stopVal |-> 0],
     ev |-> <<>>]

Init ==
    /\ root = NULL
    /\ next = [n \in Nodes |-> ZeroNext]
    /\ balance = [n \in Nodes |-> 0]
    /\ fault = FALSE
    /\ last = NoCall
    /\ ascending = TRUE

\* avl_insert(&root, node, cmpfn, join ? joinfn : NULL).  The caller passes
\* a record that is not linked into the tree and whose avl part is zeroed.
Insert(node, join) ==
    /\ last.op = "none"
    /\ node \notin TreeNodes(Heap)
    /\ next[node] = ZeroNext
    /\ balance[node] = 0
    /\ \E r \in {avl_insert(Heap, node, join)} :
       /\ root' = r.h.root
       /\ next' = r.h.next
       /\ balance' = r.h.balance
       /\ fault' = r.h.fault
       /\ last' = [NoCall EXCEPT !.op = "insert", !.node = node,
                                  !.join = join, !.ret = r.ret,
                                  !.pre = Heap, !.post = r.h,
                                  !.joins = r.joins]
       /\ ascending' = (/\ ascending
                        /\ r.ret = 0
                        /\ \A m \in TreeNodes(Heap) : cmpfn(node, m) > 0)

\* avl_delete(&root, test, cmpfn, delfn), called when no result is held or
\* directly on the result of an avl_insert (rt then records the round
\* trip).  When the call removed a node the caller owns it again and clears
\* its avl part, as a later avl_insert of the record requires; last.post
\* keeps the heap exactly as the call left it.
Delete(test, del) ==
    /\ last.op \in {"none", "insert"}
    /\ \E r \in {avl_delete(Heap, test, del)} :
       \E h \in {IF r.res # NULL /\ del # "keep"
                   THEN [r.h EXCEPT !.next[r.res] = ZeroNext,
                                    !.balance[r.res] = 0]
                   ELSE r.h} :
       /\ root' = h.root
       /\ next' = h.next
       /\ balance' = h.balance
       /\ fault' = h.fault
       /\ last' = [NoCall EXCEPT
                     !.op = "delete", !.node = test, !.del = del,
                     !.ret = r.res, !.pre = Heap, !.post = r.h,
                     !.dels = r.dels,
                     !.rt = IF /\ last.op = "insert"
                               /\ last.ret = 0
                               /\ cmpfn(test, last.node) = 0
                              THEN [node |-> last.node,
                                    keys |-> KeysOf(last.pre)]
                              ELSE NoRT]
       /\ ascending' = FALSE

\* avl_lookup(root, query, cmpfn).  The root pointer is passed by value and
\* the function stores to no record.
Lookup(query) ==
    /\ last.op = "none"
    /\ last' = [NoCall EXCEPT !.op = "lookup", !.node = query,
                              !.ret = avl_lookup(Heap, root, query),
                              !.pre = Heap, !.post = Heap]
    /\ UNCHANGED <<root, next, balance, fault, ascending>>

\* avl_foreach(root, dir, fn, data) with the visitor v.  The root pointer is
\* passed by value and neither the traversal nor the modelled visitor
\* stores to a record.
Foreach(dir, v) ==
    /\ last.op = "none"
    /\ \E r \in {avl_foreach(Heap, root, dir, v)} :
         last' = [NoCall EXCEPT !.op = "foreach", !.dir = dir,
                                !.visitor = v, !.ret = r.ret, !.ev = r.ev,
                                !.pre = Heap, !.post = Heap]
    /\ UNCHANGED <<root, next, balance, fault, ascending>>

\* The caller is done with the result of the last call.
Return ==
    /\ last.op # "none"
    /\ last' = NoCall
    /\ UNCHANGED <<root, next, balance, fault, ascending>>

Next ==
    \/ \E node \in Nodes, join \in BOOLEAN : Insert(node, join)
    \/ \E test \in Nodes, del \in DelFns : Delete(test, del)
    \/ \E query \in Nodes : Lookup(query)
    \/ \E dir \in IterDirs, v \in Visitors : Foreach(dir, v)
    \/ Return

Spec == Init /\ [][Next]_vars

\* ------------------------------------------------------ derived notions
\* The records of the tree that compare equal to q.
MatchIn(h, q) == {m \in TreeNodes(h) : cmpfn(q, m) = 0}

IsBST(h) ==
    \A n \in TreeNodes(h) :
        /\ \A m \in NodesOf(h, h.next[n][0]) : cmpfn(m, n) < 0
        /\ \A m \in NodesOf(h, h.next[n][1]) : cmpfn(m, n) > 0

RECURSIVE Leftmost(_, _)
Leftmost(h, n) == IF h.next[n][0] = NULL THEN n ELSE Leftmost(h, h.next[n][0])

TwoChildren(h, n) == h.next[n][0] # NULL /\ h.next[n][1] # NULL

\* The tree is exactly as it was before the last call.
TreeUnchanged ==
    /\ root = last.pre.root
    /\ next = last.pre.next
    /\ balance = last.pre.balance

\* The last call was an avl_delete that found its key and was not vetoed.
RemovedCall ==
    /\ last.op = "delete"
    /\ last.del # "keep"
    /\ MatchIn(last.pre, last.node) # {}

RECURSIVE Fib(_)
Fib(i) == IF i <= 1 THEN i ELSE Fib(i - 1) + Fib(i - 2)

\* ceil(1.44 * log2(n + 2) - 1) for n = 1..12.
LogHeightBound == <<2, 2, 3, 3, 4, 4, 4, 4, 4, 5, 5, 5>>

\* ------------------------------------------------------------------ claims

\* C1: after any sequence of avl_insert and avl_delete calls from the empty
\* tree the tree is a binary search tree: every key in a node's next[0]
\* subtree compares less than the node, every key in its next[1] subtree
\* compares greater.
Thm_C1_Ordering == IsBST(Heap)

\* A two-children node was removed, at least five nodes remain and the root
\* pointer changed.
Wit_C1_Ordering ==
    /\ RemovedCall
    /\ last.ret # NULL
    /\ TwoChildren(last.pre, last.ret)
    /\ Cardinality(TreeNodes(Heap)) >= 5
    /\ root # last.pre.root

\* C2: after every avl_insert and avl_delete (key present or absent, vetoed
\* or not) every node reachable from the root has balance in {-1, 0, 1}.
Thm_C2_BalanceRange == \A n \in TreeNodes(Heap) : balance[n] \in {-1, 0, 1}

\* A vetoed delete returned on a tree holding a left-heavy and a right-heavy
\* node.
Wit_C2_BalanceRange ==
    /\ last.op = "delete"
    /\ last.del = "keep"
    /\ last.ret # NULL
    /\ \E n, m \in TreeNodes(Heap) : balance[n] = -1 /\ balance[m] = 1

\* C3: after every call the stored balance of every reachable node equals
\* the height of its next[1] subtree minus the height of its next[0]
\* subtree.
Thm_C3_BalanceIsHeightDiff ==
    \A n \in TreeNodes(Heap) :
        balance[n] = Height(Heap, next[n][1]) - Height(Heap, next[n][0])

\* A two-children node with a nonzero balance was removed and its in-order
\* successor now carries that balance.
Wit_C3_BalanceIsHeightDiff ==
    /\ RemovedCall
    /\ last.ret # NULL
    /\ TwoChildren(last.pre, last.ret)
    /\ last.pre.balance[last.ret] # 0
    /\ balance[Leftmost(last.pre, last.pre.next[last.ret][1])]
         = last.pre.balance[last.ret]

\* C4: a non-vetoed avl_delete of a present key returns the node that held
\* the key before the call, the key set becomes the previous one minus that
\* key, and the returned node is no longer reachable from the root.
Thm_C4_DeleteRemoves ==
    RemovedCall =>
        /\ MatchIn(last.pre, last.node) = {last.ret}
        /\ KeysOf(last.post) = KeysOf(last.pre) \ {Key(last.node)}
        /\ KeysOf(Heap) = KeysOf(last.pre) \ {Key(last.node)}
        /\ last.ret \notin TreeNodes(last.post)
        /\ last.ret \notin TreeNodes(Heap)

\* The removed node had two children, so an in-order successor took its
\* place, and the predicate allowed the removal.
Wit_C4_DeleteRemoves ==
    /\ RemovedCall
    /\ last.del = "remove"
    /\ last.ret # NULL
    /\ TwoChildren(last.pre, last.ret)
    /\ Leftmost(last.pre, last.pre.next[last.ret][1]) \in TreeNodes(Heap)

\* C5: avl_insert returns nonzero exactly when a node comparing equal was
\* already in the tree; for an absent key it returns 0, the key set gains
\* the key and the inserted node is reachable from the root.
Thm_C5_InsertAdds ==
    last.op = "insert" =>
        /\ (last.ret # 0) <=> (MatchIn(last.pre, last.node) # {})
        /\ MatchIn(last.pre, last.node) = {} =>
              /\ last.ret = 0
              /\ KeysOf(Heap) = KeysOf(last.pre) \cup {Key(last.node)}
              /\ last.node \in TreeNodes(Heap)

\* An absent key was inserted into a tree of at least four nodes.
Wit_C5_InsertAdds ==
    /\ last.op = "insert"
    /\ last.ret = 0
    /\ Cardinality(TreeNodes(last.pre)) >= 4
    /\ last.node \in TreeNodes(Heap)

\* C6: avl_insert of a node comparing equal to a node of the tree, with a
\* NULL joinfn, returns nonzero and leaves the root pointer, every child
\* link and every balance as they were; the incoming node is not linked in.
Thm_C6_DuplicateRejected ==
    (last.op = "insert" /\ ~last.join /\ MatchIn(last.pre, last.node) # {}) =>
        /\ last.ret # 0
        /\ TreeUnchanged
        /\ last.node \notin TreeNodes(Heap)

\* A duplicate was rejected below the root of the tree.
Wit_C6_DuplicateRejected ==
    /\ last.op = "insert"
    /\ ~last.join
    /\ last.ret # 0
    /\ MatchIn(last.pre, last.node) # {}
    /\ last.pre.root \notin MatchIn(last.pre, last.node)

\* C7: when the delete-predicate returns zero for the matched node,
\* avl_delete returns that node and leaves every child link, every balance
\* and the root pointer unchanged; the predicate is called exactly once, on
\* the matched node.
Thm_C7_Veto ==
    (last.op = "delete" /\ last.del = "keep"
        /\ MatchIn(last.pre, last.node) # {}) =>
        /\ MatchIn(last.pre, last.node) = {last.ret}
        /\ TreeUnchanged
        /\ KeysOf(Heap) = KeysOf(last.pre)
        /\ last.dels = <<last.ret>>

\* A removal was vetoed for a node below the root.
Wit_C7_Veto ==
    /\ last.op = "delete"
    /\ last.del = "keep"
    /\ last.ret # NULL
    /\ last.ret # root
    /\ last.dels # <<>>

\* C8: avl_delete of a key that is not in the tree returns NULL, changes no
\* child link, balance or root pointer, and never calls the predicate.
Thm_C8_DeleteAbsent ==
    (last.op = "delete" /\ MatchIn(last.pre, last.node) = {}) =>
        /\ last.ret = NULL
        /\ TreeUnchanged
        /\ last.dels = <<>>

\* An absent key was searched for in a tree of height three with a predicate
\* supplied.
Wit_C8_DeleteAbsent ==
    /\ last.op = "delete"
    /\ last.del # "NULL"
    /\ MatchIn(last.pre, last.node) = {}
    /\ last.ret = NULL
    /\ Height(Heap, root) >= 3

\* C9: a reachable tree of height h (in node levels) holds at least
\* Fib(h + 2) - 1 nodes, and its height is at most
\* ceil(1.44 * log2(n + 2) - 1) for its n >= 1 nodes.
Thm_C9_HeightBound ==
    root # NULL =>
        /\ Cardinality(TreeNodes(Heap)) >= Fib(Height(Heap, root) + 2) - 1
        /\ Height(Heap, root) <= LogHeightBound[Cardinality(TreeNodes(Heap))]

\* A tree of height four with the minimum of seven nodes.
Wit_C9_HeightBound ==
    /\ Height(Heap, root) = 4
    /\ Cardinality(TreeNodes(Heap)) = 7

\* C10: inserting an absent key and then deleting it (not vetoed) yields the
\* key set the tree had before the insert, and the delete returns the node
\* that was inserted.
Thm_C10_InsertDeleteInverse ==
    (last.op = "delete" /\ last.del # "keep" /\ last.rt # NoRT) =>
        /\ KeysOf(Heap) = last.rt.keys
        /\ last.ret = last.rt.node

\* The round trip completed on a tree of at least four other nodes and the
\* removed node had two children.
Wit_C10_InsertDeleteInverse ==
    /\ last.op = "delete"
    /\ last.del # "keep"
    /\ last.rt # NoRT
    /\ Cardinality(last.rt.keys) >= 4
    /\ last.ret # NULL
    /\ TwoChildren(last.pre, last.ret)

\* C11: avl_lookup returns the node of the tree that compares equal to the
\* query when there is one and NULL otherwise, and changes no child link,
\* balance or root pointer.
Thm_C11_Lookup ==
    last.op = "lookup" =>
        /\ MatchIn(last.pre, last.node) # {} =>
              MatchIn(last.pre, last.node) = {last.ret}
        /\ MatchIn(last.pre, last.node) = {} => last.ret = NULL
        /\ TreeUnchanged

\* A lookup found a node two levels below the root with a query record that
\* is not the node itself.
Wit_C11_Lookup ==
    /\ last.op = "lookup"
    /\ last.ret # NULL
    /\ last.ret # last.node
    /\ last.ret # root
    /\ last.ret \notin {next[root][0], next[root][1]}

\* The events of the last avl_foreach that are visitor invocations, and the
\* nodes they were made on, in order.
VisitEvents == SelectSeq(last.ev, LAMBDA e : e.t = "visit")

Visits == [i \in 1..Len(VisitEvents) |-> VisitEvents[i].n]

\* C12: in each of the three orders, a visitor that returns a nonzero value
\* on its k-th invocation, on a tree of at least k nodes, is invoked exactly
\* k times in that call, and avl_foreach returns exactly that value.
Thm_C12_ForeachStop ==
    (/\ last.op = "foreach"
     /\ last.visitor.stopAt >= 1
     /\ Cardinality(TreeNodes(last.pre)) >= last.visitor.stopAt) =>
        /\ Len(Visits) = last.visitor.stopAt
        /\ last.ret = last.visitor.stopVal

\* A post-order walk of a tree of at least five nodes was stopped on the
\* third invocation.
Wit_C12_ForeachStop ==
    /\ last.op = "foreach"
    /\ last.dir = "AVL_POSTORDER"
    /\ last.visitor.stopAt = 3
    /\ Cardinality(TreeNodes(last.pre)) >= 5
    /\ Len(Visits) = 3
    /\ last.ret = 7

\* C13: an in-order avl_foreach with a visitor that always returns 0 invokes
\* the visitor exactly once on every node of the tree, in strictly increasing
\* comparator order, and returns 0.
Thm_C13_InorderSorted ==
    (/\ last.op = "foreach"
     /\ last.dir = "AVL_INORDER"
     /\ last.visitor.stopAt = 0) =>
        /\ Len(Visits) = Cardinality(TreeNodes(last.pre))
        /\ {Visits[i] : i \in 1..Len(Visits)} = TreeNodes(last.pre)
        /\ \A i \in 1..(Len(Visits) - 1) : cmpfn(Visits[i], Visits[i + 1]) < 0
        /\ last.ret = 0

\* A complete in-order walk of a tree of height three that is neither a left
\* nor a right chain at the root.
Wit_C13_InorderSorted ==
    /\ last.op = "foreach"
    /\ last.dir = "AVL_INORDER"
    /\ last.visitor.stopAt = 0
    /\ Height(Heap, root) >= 3
    /\ TwoChildren(Heap, root)
    /\ Len(Visits) >= 5

\* C14: in a post-order avl_foreach the visitor is invoked on a node only
\* after it was invoked on every node of both subtrees of that node, and
\* after the invocation on a node the traversal reads no field of that node
\* again.
Thm_C14_PostorderTeardown ==
    (last.op = "foreach" /\ last.dir = "AVL_POSTORDER") =>
        \A i \in 1..Len(last.ev) :
            last.ev[i].t = "visit" =>
                /\ \A m \in NodesOf(last.pre, last.pre.next[last.ev[i].n][0])
                         \cup NodesOf(last.pre, last.pre.next[last.ev[i].n][1]) :
                       \E j \in 1..(i - 1) :
                           last.ev[j].t = "visit" /\ last.ev[j].n = m
                /\ \A j \in (i + 1)..Len(last.ev) :
                       ~(last.ev[j].t = "read" /\ last.ev[j].n = last.ev[i].n)

\* A complete post-order walk of a tree of height three whose root has two
\* children: the root is the last node visited.
Wit_C14_PostorderTeardown ==
    /\ last.op = "foreach"
    /\ last.dir = "AVL_POSTORDER"
    /\ last.visitor.stopAt = 0
    /\ Height(Heap, root) >= 3
    /\ TwoChildren(Heap, root)
    /\ Len(Visits) = Cardinality(TreeNodes(Heap))
    /\ Visits[Len(Visits)] = root

\* C15: with a non-NULL joinfn, avl_insert calls it exactly once when the
\* incoming node compares equal to a node of the tree, passing the slot that
\* holds that node and the incoming node, and returns nonzero with every
\* child link and balance as before; it never calls it for an absent key.
Thm_C15_Join ==
    (last.op = "insert" /\ last.join) =>
        /\ MatchIn(last.pre, last.node) # {} =>
              /\ Len(last.joins) = 1
              /\ Deref(last.pre, last.joins[1].slot)
                    \in MatchIn(last.pre, last.node)
              /\ last.joins[1].join = last.node
              /\ last.ret # 0
              /\ TreeUnchanged
        /\ MatchIn(last.pre, last.node) = {} => last.joins = <<>>

\* The join callback was called for an equal node held in a child slot of a
\* record, not in the root pointer.
Wit_C15_Join ==
    /\ last.op = "insert"
    /\ last.join
    /\ Len(last.joins) = 1
    /\ last.joins[1].slot # RootSlot
    /\ last.ret # 0

\* The commits of the last call, lowest position first.
Commits == SelectSeq(last.post.log, LAMBDA e : e.t = "commit")

\* The nodes strictly above n in the tree of h.
ProperAncestors(h, n) == {a \in TreeNodes(h) \ {n} : n \in NodesOf(h, a)}

\* C16: in an avl_insert of an absent key, a commit that leaves balance 0 at
\* its position is the last commit of the call, the subtree at that position
\* is as high as it was before the call and every node strictly above it
\* keeps its balance; a commit that leaves a nonzero balance is followed by
\* the commit of the parent position unless it was made at the root pointer.
Thm_C16_InsertStop ==
    (last.op = "insert" /\ last.ret = 0) =>
        \A i \in 1..Len(Commits) :
            /\ Commits[i].v = 0 =>
                  /\ i = Len(Commits)
                  /\ Commits[i].w =
                        Height(last.pre, Deref(last.pre, Commits[i].s))
                  /\ \A a \in ProperAncestors(last.pre,
                                               Deref(last.pre, Commits[i].s)) :
                        last.post.balance[a] = last.pre.balance[a]
            /\ Commits[i].v # 0 =>
                  \/ Commits[i].s = RootSlot
                  \/ /\ i < Len(Commits)
                     /\ Deref(last.pre, Commits[i + 1].s) = Commits[i].s.n

\* An insertion propagated through at least two positions and stopped with
\* balance 0 below the root, under an ancestor whose balance was nonzero.
Wit_C16_InsertStop ==
    /\ last.op = "insert"
    /\ last.ret = 0
    /\ Len(Commits) >= 2
    /\ Commits[Len(Commits)].v = 0
    /\ Commits[Len(Commits)].s # RootSlot
    /\ \E a \in ProperAncestors(last.pre,
                   Deref(last.pre, Commits[Len(Commits)].s)) :
          last.pre.balance[a] # 0

\* The node whose balance stands, after the removal of node d, where the
\* balance of a stood before: a itself, or the in-order successor of d
\* when a is d (d then had two children).
Heir(a, d) == IF a = d THEN Leftmost(last.pre, last.pre.next[d][1]) ELSE a

\* C17: in an avl_delete that removes a node, at every commit the balance
\* left at the position is nonzero exactly when the subtree there is as high
\* as it was before the call; such a commit is the last one of the call and
\* the balance of every node strictly above is kept (the successor taking
\* over the balance of a removed node with two children). A commit that
\* leaves balance 0 has lowered the subtree by exactly one, and is followed
\* by a commit at the parent position (for the right child slot of the
\* removed node: the slot of the removed node, which then holds the
\* successor) unless it was made at the root pointer.
Thm_C17_DeleteStop ==
    (RemovedCall /\ last.ret # NULL) =>
        \A i \in 1..Len(Commits) :
            /\ (Commits[i].v # 0) <=>
                  (Commits[i].w =
                     Height(last.pre, Deref(last.pre, Commits[i].s)))
            /\ Commits[i].v # 0 =>
                  /\ i = Len(Commits)
                  /\ \A a \in ProperAncestors(last.pre,
                                               Deref(last.pre, Commits[i].s)) :
                        last.post.balance[Heir(a, last.ret)] =
                            last.pre.balance[a]
            /\ Commits[i].v = 0 =>
                  /\ Commits[i].w =
                        Height(last.pre, Deref(last.pre, Commits[i].s)) - 1
                  /\ \/ Commits[i].s = RootSlot
                     \/ /\ i < Len(Commits)
                        /\ Deref(last.pre, Commits[i + 1].s) = Commits[i].s.n

\* A node with two children was removed: the unlink of its successor
\* lowered the right subtree (first commit, on the unlink path, balance 0),
\* propagation went on and stopped at a later commit with nonzero balance.
Wit_C17_DeleteStop ==
    /\ RemovedCall
    /\ last.ret # NULL
    /\ TwoChildren(last.pre, last.ret)
    /\ Len(Commits) >= 2
    /\ Commits[1].v = 0
    /\ Commits[1].s.n \in NodesOf(last.pre, last.ret)
    /\ Commits[Len(Commits)].v # 0

RECURSIVE Pow2(_)
Pow2(k) == IF k = 0 THEN 1 ELSE 2 * Pow2(k - 1)

\* C18: after 2^k - 1 distinct keys were inserted in ascending order into
\* the empty tree (and nothing else was stored), the tree has height exactly
\* k and every balance is 0.
Thm_C18_AscendingPerfect ==
    ascending =>
        \A k \in 1..NumKeys :
            Cardinality(TreeNodes(Heap)) = Pow2(k) - 1 =>
                /\ Height(Heap, root) = k
                /\ \A n \in TreeNodes(Heap) : balance[n] = 0

\* Seven keys were inserted in ascending order; the last insert has just
\* returned.
Wit_C18_AscendingPerfect ==
    /\ ascending
    /\ last.op = "insert"
    /\ Cardinality(TreeNodes(Heap)) = 7
    /\ Height(Heap, root) = 3

\* The steps of the last call.
Steps == last.post.log

\* C19: in every avl_insert and avl_delete no NULL pointer is dereferenced;
\* every balance stored is in -2..2; avl_restructure rotates only at a
\* balance of -2 or 2 and the child on the heavy side is then not NULL;
\* every avl_rotate, the inner one of a double rotation included, finds a
\* non-NULL child to promote; and the balance left at a position after
\* avl_restructure is in {-1, 0, 1}.
Thm_C19_TransientRange ==
    last.op \in {"insert", "delete"} =>
        /\ ~last.post.fault
        /\ \A i \in 1..Len(Steps) :
              /\ Steps[i].t = "bal" => Steps[i].v \in -2..2
              /\ Steps[i].t = "restr" =>
                    /\ Steps[i].v \in {-2, 2}
                    /\ Steps[i].n # NULL
                    /\ i < Len(Steps)
                    /\ Steps[i + 1].t = "rot"
                    /\ avl_double_rot(Steps[i].v, Steps[i].w) =>
                          /\ Steps[i + 1].n = Steps[i].n
                          /\ Steps[i + 1].s # Steps[i].s
              /\ Steps[i].t = "rot" =>
                    /\ Steps[i].n # NULL
                    /\ Steps[i].w # NULL
              /\ Steps[i].t = "commit" => Steps[i].v \in {-1, 0, 1}

\* An avl_delete drove a balance to -2 or 2 over a heavy child leaning the
\* other way, and the double rotation was made.
Wit_C19_TransientRange ==
    /\ last.op = "delete"
    /\ \E i \in 1..Len(Steps) :
          /\ Steps[i].t = "restr"
          /\ avl_double_rot(Steps[i].v, Steps[i].w)
          /\ Cardinality({j \in i..Len(Steps) : Steps[j].t = "rot"}) = 2

\* The restructurings of the last call.
Restructs == SelectSeq(Steps, LAMBDA e : e.t = "restr")

\* C20: one avl_insert restructures at most once.  When it does, the
\* balance read from the heavy child is nonzero, the commit of that
\* position leaves balance 0 and is the last step of the call, so that no
\* position above is adjusted or rotated.
Thm_C20_InsertOneRestructure ==
    last.op = "insert" =>
        /\ Len(Restructs) <= 1
        /\ Cardinality({i \in 1..Len(Steps) : Steps[i].t = "rot"}) <= 2
        /\ \A i \in 1..Len(Steps) :
              Steps[i].t = "restr" =>
                  /\ Steps[i].w # 0
                  /\ Steps[Len(Steps)].t = "commit"
                  /\ Steps[Len(Steps)].s = Steps[i].s
                  /\ Steps[Len(Steps)].v = 0
                  /\ \A j \in (i + 1)..(Len(Steps) - 1) :
                        Steps[j].t \in {"rot", "bal"}

\* An insertion was propagated through a position that kept a nonzero
\* balance in range and then drove the position above it to -2 or 2, below
\* the root of the tree, where a double rotation was made.
Wit_C20_InsertOneRestructure ==
    /\ last.op = "insert"
    /\ Len(Restructs) = 1
    /\ Restructs[1].s # RootSlot
    /\ avl_double_rot(Restructs[1].v, Restructs[1].w)
    /\ Len(Commits) >= 2

====
